---------------------------- MODULE Spec2Model ----------------------------
(***************************************************************************)
(* Robust geometric-model estimation core of AliceVision:                  *)
(*   - geometry/rigidTransformation3D.hpp : composeRTS, decomposeRTS,      *)
(*     FindRTS, ACRansac_FindRTS (matrix overload), RTSSolver,             *)
(*     RTSSquaredResidualError, ACKernelAdaptor_PointsRegistrationSRT      *)
(*   - multiview/fundamentalKernelSolver.cpp : SevenPointSolver::Solve,    *)
(*     EightPointSolver::Solve                                             *)
(*   - robustEstimation/randSampling.hpp (only its test is available):     *)
(*     UniformSample, randSample                                           *)
(*                                                                         *)
(* Four specifications share the variables; each leaves the variables of   *)
(* the other components at their initial values.                           *)
(*   SpecRTS    : a caller of compose/decompose/FindRTS/ACRansac_FindRTS   *)
(*   SpecKernel : worker threads sharing one kernel adaptor                *)
(*   SpecFund   : calls of the seven- and eight-point solvers              *)
(*   SpecSample : one call of a sampling routine                           *)
(***************************************************************************)
EXTENDS Integers, Naturals, Sequences, FiniteSets, TLC

VARIABLES
  \* ---- rigidTransformation3D.hpp, free functions --------------------
  NDEBUG,       \* build flag: TRUE when assert() is compiled out
  rPc,          \* "running" | "aborted" (a failed assert)
  RTS,          \* the caller's Mat4
  S, t, R,      \* the caller's scale, translation, rotation out-parameters
  vec_inliers,  \* the caller's inlier vector
  composed,     \* history: arguments of the composeRTS call that last wrote RTS
  last,         \* history: the last call, its arguments and its result
  \* ---- ACKernelAdaptor_PointsRegistrationSRT ------------------------
  ErrorT,       \* the ErrorArg template argument of the instance
  xA, xB,       \* the constructor's arguments
  x1_, x2_,     \* the adaptor's members
  logalpha0_,
  thr,          \* per worker thread: the call in progress, its locals, its result
  \* ---- fundamentalKernelSolver.cpp ----------------------------------
  F,            \* SevenPointSolver::Solve's output vector
  Fs,           \* EightPointSolver::Solve's output vector
  fcall,        \* history: the last solver call
  \* ---- randSampling -------------------------------------------------
  sCall,        \* the sampling call: routine, lowerBound, upperBound, numSamples
  samples,      \* the output container (a sequence, or a set for the set form)
  sPool,        \* randSample's working array
  sPc           \* "run" | "done"

rtsVars    == <<NDEBUG, rPc, RTS, S, t, R, vec_inliers, composed, last>>
kernelVars == <<ErrorT, xA, xB, x1_, x2_, logalpha0_, thr>>
fundVars   == <<F, Fs, fcall>>
sampleVars == <<sCall, samples, sPool, sPc>>
vars       == <<rtsVars, kernelVars, fundVars, sampleVars>>

(***************************************************************************)
(* double.  A finite double is a dyadic rational m * 2^e, kept in the      *)
(* canonical form with m odd (or m = 0, e = 0), so that equal values are    *)
(* equal records.  NaN is a value of its own.  Arithmetic is exact (the    *)
(* mantissas used stay far below 2^53).  A cube root that is not dyadic is *)
(* kept as the term [cbrt |-> d], a quotient that is not dyadic as the     *)
(* term [num |-> x, den |-> y].                                            *)
(***************************************************************************)
RECURSIVE Dy(_, _)
Dy(m, e) ==
  IF m = 0 THEN [m |-> 0, e |-> 0]
  ELSE IF m % 2 = 0 THEN Dy(m \div 2, e + 1)
  ELSE [m |-> m, e |-> e]

NaN == [nan |-> TRUE]

IsNaN(x) == "nan" \in DOMAIN x

IsDy(x) == "m" \in DOMAIN x

IsCbrt(x) == "cbrt" \in DOMAIN x

Zero == Dy(0, 0)

One == Dy(1, 0)

RECURSIVE Pow2(_)
Pow2(n) == IF n <= 0 THEN 1 ELSE 2 * Pow2(n - 1)

RECURSIVE BitLen(_)
BitLen(n) == IF n <= 0 THEN 0 ELSE 1 + BitLen(n \div 2)

Abs(n) == IF n < 0 THEN 0 - n ELSE n

Min(a, b) == IF a < b THEN a ELSE b

DMul(a, b) ==
  IF IsNaN(a) \/ IsNaN(b) THEN NaN
  ELSE Dy(a.m * b.m, a.e + b.e)

DNeg(a) == IF IsNaN(a) THEN NaN ELSE [m |-> 0 - a.m, e |-> a.e]

DAdd(a, b) ==
  IF IsNaN(a) \/ IsNaN(b) THEN NaN
  ELSE IF a.m = 0 THEN b
  ELSE IF b.m = 0 THEN a
  ELSE LET e0 == Min(a.e, b.e)
       IN  Dy(a.m * Pow2(a.e - e0) + b.m * Pow2(b.e - e0), e0)

DSub(a, b) == DAdd(a, DNeg(b))

\* a < b for positive dyadics: by the position of the leading bit, then by
\* the aligned mantissas.
MagLess(a, b) ==
  LET ta == a.e + BitLen(a.m)
      tb == b.e + BitLen(b.m)
      e0 == Min(a.e, b.e)
  IN  IF ta # tb THEN ta < tb
      ELSE a.m * Pow2(a.e - e0) < b.m * Pow2(b.e - e0)

Sign(a) == IF a.m < 0 THEN -1 ELSE IF a.m = 0 THEN 0 ELSE 1

\* operator< of double: false as soon as an operand is NaN.
DLess(a, b) ==
  IF IsNaN(a) \/ IsNaN(b) THEN FALSE
  ELSE IF Sign(a) # Sign(b) THEN Sign(a) < Sign(b)
  ELSE IF Sign(a) = 0 THEN FALSE
  ELSE IF Sign(a) > 0 THEN MagLess(a, b)
  ELSE MagLess(DNeg(b), DNeg(a))

\* operator>= of double: false as soon as an operand is NaN.
DGeq(a, b) == ~IsNaN(a) /\ ~IsNaN(b) /\ ~DLess(a, b)

\* std::numeric_limits<double>::epsilon() = 2^EpsExp
EpsExp == -52

Epsilon == Dy(1, EpsExp)

ICbrt(n) == CHOOSE r \in 0..n : r * r * r <= n /\ (r + 1) * (r + 1) * (r + 1) > n

\* pow(d, 1.0 / 3.0) for d >= 0 or NaN
Pow13(d) ==
  IF IsNaN(d) THEN NaN
  ELSE IF d.m = 0 THEN Zero
  ELSE LET r == ICbrt(d.m)
       IN  IF r * r * r = d.m /\ d.e % 3 = 0
             THEN Dy(r, d.e \div 3)
             ELSE [cbrt |-> d]

\* s < epsilon, for s a result of Pow13: the cube root is increasing, so a
\* cube root term is below epsilon exactly when its radicand is below epsilon^3.
LessEps(s) ==
  IF IsNaN(s) THEN FALSE
  ELSE IF IsCbrt(s) THEN DLess(s.cbrt, Dy(1, 3 * EpsExp))
  ELSE DLess(s, Epsilon)

\* s >= epsilon
GeqEps(s) == ~IsNaN(s) /\ ~LessEps(s)

\* x / s
DDiv(x, s) ==
  IF IsNaN(x) \/ IsNaN(s) THEN NaN
  ELSE IF IsDy(x) /\ IsDy(s) /\ s.m # 0 /\ x.m % Abs(s.m) = 0
         THEN Dy((IF s.m < 0 THEN 0 - x.m ELSE x.m) \div Abs(s.m), x.e - s.e)
  ELSE [num |-> x, den |-> s]

(***************************************************************************)
(* Mat3, Mat4, Vec3: tuples of rows of doubles.                            *)
(***************************************************************************)
topLeftCorner3(M) == [i \in 1..3 |-> [j \in 1..3 |-> M[i][j]]]

topRightCorner31(M) == [i \in 1..3 |-> M[i][4]]

\* Eigen's 3x3 determinant: expansion along the first row
Det3Helper(M, a, b, c) ==
  DMul(M[1][a], DSub(DMul(M[2][b], M[3][c]), DMul(M[2][c], M[3][b])))

determinant(M) ==
  DAdd(DSub(Det3Helper(M, 1, 2, 3), Det3Helper(M, 2, 1, 3)), Det3Helper(M, 3, 1, 2))

MatScale(s, M) == [i \in 1..3 |-> [j \in 1..3 |-> DMul(s, M[i][j])]]

MatDiv(M, s) == [i \in 1..3 |-> [j \in 1..3 |-> DDiv(M[i][j], s)]]


MatMulT(M) ==
  [i \in 1..3 |-> [j \in 1..3 |->
     DAdd(DAdd(DMul(M[i][1], M[j][1]), DMul(M[i][2], M[j][2])), DMul(M[i][3], M[j][3]))]]

IntMat3(M) == [i \in 1..3 |-> [j \in 1..3 |-> Dy(M[i][j], 0)]]

Identity3 == IntMat3(<<<<1, 0, 0>>, <<0, 1, 0>>, <<0, 0, 1>>>>)

\* a proper rotation: orthonormal, determinant +1
IsRotation(M) == MatMulT(M) = Identity3 /\ determinant(M) = One

MkMat4(B, tt, bottom) ==
  [i \in 1..4 |-> [j \in 1..4 |->
     IF i = 4 THEN bottom[j] ELSE IF j = 4 THEN tt[i] ELSE B[i][j]]]

(***************************************************************************)
(* composeRTS: writes the top-left 3x3 block and the top-right 3x1 column  *)
(* of RTS; the result is the matrix RTS holds after the call.              *)
(***************************************************************************)
composeRTS(Sin, tin, Rin, RTSio) ==
  [i \in 1..4 |-> [j \in 1..4 |->
     IF i <= 3 /\ j <= 3 THEN DMul(Sin, Rin[i][j])
     ELSE IF i <= 3 /\ j = 4 THEN tin[i]
     ELSE RTSio[i][j]]]

(***************************************************************************)
(* decomposeRTS: the return value and the out-parameters after the call.   *)
(* R is assigned before the first test, S before the second, t only on     *)
(* success.                                                                *)
(***************************************************************************)
decomposeRTS_NoNormalize(RTSin, Sio, tio, Rio) ==
  LET R1 == topLeftCorner3(RTSin)
  IN  IF DLess(determinant(R1), Zero)
        THEN [ret |-> FALSE, S |-> Sio, t |-> tio, R |-> R1]
        ELSE LET S1 == Pow13(determinant(R1))
             IN  IF LessEps(S1)
                   THEN [ret |-> FALSE, S |-> S1, t |-> tio, R |-> R1]
                   ELSE [ret |-> TRUE, S |-> S1, t |-> topRightCorner31(RTSin),
                         R |-> R1]

decomposeRTS(RTSin, Sio, tio, Rio) ==
  LET R1 == topLeftCorner3(RTSin)
  IN  IF DLess(determinant(R1), Zero)
        THEN [ret |-> FALSE, S |-> Sio, t |-> tio, R |-> R1]
        ELSE LET S1 == Pow13(determinant(R1))
             IN  IF LessEps(S1)
                   THEN [ret |-> FALSE, S |-> S1, t |-> tio, R |-> R1]
                   ELSE [ret |-> TRUE, S |-> S1, t |-> topRightCorner31(RTSin),
                         R |-> MatDiv(R1, S1)]

(***************************************************************************)
(* FindRTS.  x1 and x2 are given by their shapes: their entries are read   *)
(* only by Eigen::umeyama, whose result is the argument transform.  With   *)
(* assert() compiled in, a failed shape assertion aborts the program; with *)
(* NDEBUG the call goes on.                                                *)
(***************************************************************************)
ShapeAssertsHold(x1, x2) ==
  /\ 3 = x1.rows
  /\ 3 <= x1.cols
  /\ x1.rows = x2.rows
  /\ x1.cols = x2.cols

FindRTS_OnlyX1Checked(x1, x2, Sio, tio, Rio, transform, ndebug) ==
  IF x1.cols < 3
    THEN [status |-> "returned", ret |-> FALSE, S |-> Sio, t |-> tio, R |-> Rio,
          asserted |-> FALSE, estimated |-> FALSE]
  ELSE IF ~ndebug /\ ~ShapeAssertsHold(x1, x2)
    THEN [status |-> "aborted", ret |-> FALSE, S |-> Sio, t |-> tio, R |-> Rio,
          asserted |-> TRUE, estimated |-> FALSE]
  ELSE LET d == decomposeRTS(transform, Sio, tio, Rio)
       IN  [status |-> "returned", ret |-> d.ret, S |-> d.S, t |-> d.t, R |-> d.R,
            asserted |-> TRUE, estimated |-> TRUE]

FindRTS(x1, x2, Sio, tio, Rio, transform, ndebug) ==
  IF x1.cols < 3 \/ x2.cols < 3
    THEN [status |-> "returned", ret |-> FALSE, S |-> Sio, t |-> tio, R |-> Rio,
          asserted |-> FALSE, estimated |-> FALSE]
  ELSE IF ~ndebug /\ ~ShapeAssertsHold(x1, x2)
    THEN [status |-> "aborted", ret |-> FALSE, S |-> Sio, t |-> tio, R |-> Rio,
          asserted |-> TRUE, estimated |-> FALSE]
  ELSE LET d == decomposeRTS(transform, Sio, tio, Rio)
       IN  [status |-> "returned", ret |-> d.ret, S |-> d.S, t |-> d.t, R |-> d.R,
            asserted |-> TRUE, estimated |-> TRUE]

(***************************************************************************)
(* The values the calls are made with.                                     *)
(***************************************************************************)
MaxCols == 4

\* 3 x c point sets, and one with the wrong number of rows
Shapes == {[rows |-> 3, cols |-> c] : c \in 2..MaxCols} \cup {[rows |-> 2, cols |-> 3]}

Rz90 == IntMat3(<<<<0, -1, 0>>, <<1, 0, 0>>, <<0, 0, 1>>>>)

Rx180 == IntMat3(<<<<1, 0, 0>>, <<0, -1, 0>>, <<0, 0, -1>>>>)

Reflection == IntMat3(<<<<1, 0, 0>>, <<0, 1, 0>>, <<0, 0, -1>>>>)

Singular == IntMat3(<<<<1, 0, 0>>, <<0, 1, 0>>, <<0, 0, 0>>>>)

Stretch == IntMat3(<<<<1, 0, 0>>, <<0, 1, 0>>, <<0, 0, 2>>>>)

Rotations == {Identity3, Rz90, Rx180}

Blocks == Rotations \cup {Reflection, Singular, Stretch}

\* epsilon / 2, epsilon, 1, 3
Scales == {Dy(1, EpsExp - 1), Epsilon, One, Dy(3, 0)}

Translation1 == <<Dy(1, 0), Dy(-1, 1), Dy(3, -1)>>

Translations == {<<Zero, Zero, Zero>>, Translation1}

HomogeneousRow == <<Zero, Zero, Zero, One>>

ZeroRow == <<Zero, Zero, Zero, Zero>>

NaNBlock == [i \in 1..3 |-> [j \in 1..3 |-> NaN]]

NaNVec3 == <<NaN, NaN, NaN>>

\* what a caller may hand to decomposeRTS or hold in RTS before a call:
\* scaled rotations and non-rotations, Mat4::Zero(), and a matrix of NaN
CallerMats ==
  {MkMat4(MatScale(s, B), Translation1, HomogeneousRow) : s \in Scales, B \in Blocks}
  \cup {MkMat4(MatScale(Zero, Identity3), <<Zero, Zero, Zero>>, ZeroRow),
        MkMat4(NaNBlock, NaNVec3, HomogeneousRow)}

\* Eigen::umeyama(x1, x2, true): [c*R t; 0 1] with R a rotation and c >= 0;
\* c is 0 when the destination points coincide and NaN (1/0 * 0) when the
\* source points coincide.
UmeyamaResults ==
  {MkMat4(MatScale(c, Rm), Translation1, HomogeneousRow) :
     c \in {Zero, Dy(1, EpsExp - 1), Epsilon, Dy(3, 0)}, Rm \in {Identity3, Rz90}}
  \cup {MkMat4(NaNBlock, NaNVec3, HomogeneousRow)}

InlierSets == {<<>>, <<0, 1, 2>>}

NoCompose == [valid |-> FALSE]

\* the out-parameters before the first call: not yet assigned by any call
Unassigned == Dy(7, 0)

InitRTS ==
  /\ NDEBUG = FALSE
  /\ rPc = "running"
  /\ RTS \in CallerMats
  /\ S = Unassigned
  /\ t = <<Unassigned, Unassigned, Unassigned>>
  /\ R = [i \in 1..3 |-> [j \in 1..3 |-> Unassigned]]
  /\ vec_inliers = <<>>
  /\ composed = NoCompose
  /\ last = [op |-> "none"]

\* composeRTS(Sin, tin, Rin, RTS)
Call_composeRTS ==
  /\ rPc = "running"
  /\ \E Sin \in Scales, tin \in Translations, Rin \in {Rz90, Reflection} :
       /\ RTS' = composeRTS(Sin, tin, Rin, RTS)
       /\ composed' = [valid |-> TRUE, S |-> Sin, t |-> tin, R |-> Rin]
       /\ last' = [op |-> "composeRTS"]
  /\ UNCHANGED <<NDEBUG, rPc, S, t, R, vec_inliers>>
  /\ UNCHANGED <<kernelVars, fundVars, sampleVars>>

\* ok = decomposeRTS(RTS, S, t, R)
Call_decomposeRTS ==
  /\ rPc = "running"
  /\ LET d == decomposeRTS(RTS, S, t, R)
     IN  /\ S' = d.S
         /\ t' = d.t
         /\ R' = d.R
         /\ last' = [op |-> "decomposeRTS", input |-> RTS, ret |-> d.ret]
  /\ UNCHANGED <<NDEBUG, rPc, RTS, vec_inliers, composed>>
  /\ UNCHANGED <<kernelVars, fundVars, sampleVars>>

\* ok = FindRTS(x1, x2, S, t, R)
Call_FindRTS ==
  /\ rPc = "running"
  /\ \E x1 \in Shapes, x2 \in Shapes, transform \in UmeyamaResults :
       LET f == FindRTS(x1, x2, S, t, R, transform, NDEBUG)
       IN  /\ S' = f.S
           /\ t' = f.t
           /\ R' = f.R
           /\ rPc' = IF f.status = "aborted" THEN "aborted" ELSE "running"
           /\ last' = [op |-> "FindRTS", x1 |-> x1, x2 |-> x2, status |-> f.status,
                       input |-> IF f.estimated THEN transform ELSE <<>>,
                       ret |-> f.ret,
                       asserted |-> f.asserted, estimated |-> f.estimated]
  /\ UNCHANGED <<NDEBUG, RTS, vec_inliers, composed>>
  /\ UNCHANGED <<kernelVars, fundVars, sampleVars>>

\* good = ACRansac_FindRTS(x1, x2, RTS, vec_inliers, refine): the overload
\* with S, t, R out-parameters fills the wrapper's locals and the inliers.
Call_ACRansac_FindRTS ==
  /\ rPc = "running"
  /\ \E good \in BOOLEAN, Sl \in {Dy(3, 0)}, tl \in Translations, Rl \in {Rx180},
        inl \in InlierSets :
       /\ vec_inliers' = inl
       /\ RTS' = IF good THEN composeRTS(Sl, tl, Rl, RTS) ELSE RTS
       /\ composed' = IF good THEN [valid |-> TRUE, S |-> Sl, t |-> tl, R |-> Rl]
                      ELSE composed
       /\ last' = [op |-> "ACRansac_FindRTS", ret |-> good]
  /\ UNCHANGED <<NDEBUG, rPc, S, t, R>>
  /\ UNCHANGED <<kernelVars, fundVars, sampleVars>>

(***************************************************************************)
(* The variables of a component no call is made on.                        *)
(***************************************************************************)
IdleRTS ==
  /\ NDEBUG = FALSE
  /\ rPc = "idle"
  /\ RTS = <<>>
  /\ S = Zero
  /\ t = <<>>
  /\ R = <<>>
  /\ vec_inliers = <<>>
  /\ composed = NoCompose
  /\ last = [op |-> "none"]

IdleKernel ==
  /\ ErrorT = "none"
  /\ xA = <<>>
  /\ xB = <<>>
  /\ x1_ = <<>>
  /\ x2_ = <<>>
  /\ logalpha0_ = "unset"
  /\ thr = <<>>

IdleFund ==
  /\ F = <<>>
  /\ Fs = <<>>
  /\ fcall = [op |-> "none"]

IdleSample ==
  /\ sCall = [routine |-> "none"]
  /\ samples = <<>>
  /\ sPool = <<>>
  /\ sPc = "idle"

InitR == InitRTS /\ IdleKernel /\ IdleFund /\ IdleSample

InitFindRTS ==
  /\ NDEBUG \in BOOLEAN
  /\ rPc = "running"
  /\ RTS = MkMat4(Identity3, <<Zero, Zero, Zero>>, HomogeneousRow)
  /\ S = Unassigned
  /\ t = <<Unassigned, Unassigned, Unassigned>>
  /\ R = [i \in 1..3 |-> [j \in 1..3 |-> Unassigned]]
  /\ vec_inliers = <<>>
  /\ composed = NoCompose
  /\ last = [op |-> "none"]

InitF == InitFindRTS /\ IdleKernel /\ IdleFund /\ IdleSample

NextRTS ==
  \/ Call_composeRTS
  \/ Call_decomposeRTS
  \/ Call_ACRansac_FindRTS

SpecRTS == InitR /\ [][NextRTS]_vars

NextFind == Call_FindRTS

SpecFind == InitF /\ [][NextFind]_vars

(***************************************************************************)
(* Claims about composeRTS, decomposeRTS, FindRTS, ACRansac_FindRTS.       *)
(***************************************************************************)

\* the determinant of the top-left block of the matrix the last call decomposed
LastDet == determinant(topLeftCorner3(last.input))

\* the cube root of d is below epsilon
ImpliedScaleBelowEps(d) == DLess(d, Dy(1, 3 * EpsExp))

\* C3: decomposeRTS returns false when the determinant of the top-left block
\* is negative, returns false when the implied scale is below epsilon, and
\* returns true only when the determinant is non-negative and the recovered
\* scale S is at least epsilon.  (Fails on the code: a block of NaN is accepted.)
C3_DecomposeRejectsNonSimilarity ==
  last.op = "decomposeRTS" =>
    /\ (DLess(LastDet, Zero) => ~last.ret)
    /\ (ImpliedScaleBelowEps(LastDet) => ~last.ret)
    /\ (last.ret => DGeq(LastDet, Zero) /\ GeqEps(S))

\* C3, on inputs without NaN: the same statement holds.
C3_HoldsOnFiniteInputs ==
  (last.op = "decomposeRTS" /\ ~IsNaN(LastDet)) =>
    /\ (DLess(LastDet, Zero) => ~last.ret)
    /\ (ImpliedScaleBelowEps(LastDet) => ~last.ret)
    /\ (last.ret => DGeq(LastDet, Zero) /\ GeqEps(S))

\* the last call decomposed the matrix composeRTS built from (S, t, R) = composed
RoundTripDone == last.op = "decomposeRTS" /\ composed.valid

RoundTripRecovers ==
  /\ last.ret
  /\ S = composed.S
  /\ R = composed.R
  /\ t = composed.t

C5_ComposeWritesWholeMatrix ==
  composed.valid =>
    RTS = MkMat4(MatScale(composed.S, composed.R), composed.t, HomogeneousRow)

\* C5, the part the code does write: the top-left block and the top-right column.
C5_ComposeWritesBlockAndColumn ==
  composed.valid =>
    /\ topLeftCorner3(RTS) = MatScale(composed.S, composed.R)
    /\ topRightCorner31(RTS) = composed.t

\* C10: FindRTS called with a point set of fewer than 3 columns returns false,
\* leaves S, t and R as they were and reaches neither the shape assertions nor
\* the estimation; with at least 3 columns in each, the value it returns is
\* the value decomposeRTS returns on the estimated transform.
C10_FindRTSStep ==
  last'.op = "FindRTS" =>
    IF last'.x1.cols < 3 \/ last'.x2.cols < 3
      THEN /\ last'.status = "returned"
           /\ ~last'.ret
           /\ S' = S /\ t' = t /\ R' = R
           /\ ~last'.asserted
           /\ ~last'.estimated
      ELSE last'.status = "returned" =>
             /\ last'.estimated
             /\ last'.ret = decomposeRTS(last'.input, S, t, R).ret

C10_FindRTSReturn == [][C10_FindRTSStep]_vars

\* C10 witness: an early return (x2 too small) after an earlier call assigned S
C10_Witness ==
  /\ last.op = "FindRTS"
  /\ last.x1.cols >= 3
  /\ last.x2.cols < 3
  /\ ~last.ret
  /\ ~last.asserted
  /\ S = Dy(3, 0)

(***************************************************************************)
(* ACKernelAdaptor_PointsRegistrationSRT<SolverArg, ErrorArg, Mat4>.       *)
(* Points and models have integer entries here.  An error value is the     *)
(* record [v |-> n] (the integer n) or [sqrt |-> n] (the square root of a  *)
(* non-square n), so that squaring a norm is computed, not assumed.        *)
(***************************************************************************)
IsInt(x) == "v" \in DOMAIN x

ISqrt(n) == CHOOSE r \in 0..n : r * r <= n /\ (r + 1) * (r + 1) > n

\* sqrt(n) for an integer n >= 0
SqrtOf(n) == IF ISqrt(n) * ISqrt(n) = n THEN [v |-> ISqrt(n)] ELSE [sqrt |-> n]

\* Square(x) = x * x
Square(x) == IF IsInt(x) THEN [v |-> x.v * x.v] ELSE [v |-> x.sqrt]

\* pt2 - (RS * pt1 + t), with RS the top-left block and t the top-right column
Residual(RTSm, pt1, pt2) ==
  [i \in 1..3 |->
     pt2[i] - (RTSm[i][1] * pt1[1] + RTSm[i][2] * pt1[2] + RTSm[i][3] * pt1[3]
               + RTSm[i][4])]

squaredNorm(v) == v[1] * v[1] + v[2] * v[2] + v[3] * v[3]

norm(v) == SqrtOf(squaredNorm(v))

RTSSolver_Error(RTSm, pt1, pt2) == norm(Residual(RTSm, pt1, pt2))

RTSSquaredResidualError_Error(RTSm, pt1, pt2) ==
  [v |-> squaredNorm(Residual(RTSm, pt1, pt2))]

\* ErrorT::Error, by the template argument
ErrorT_Error(E, RTSm, pt1, pt2) ==
  IF E = "RTSSolver" THEN RTSSolver_Error(RTSm, pt1, pt2)
  ELSE RTSSquaredResidualError_Error(RTSm, pt1, pt2)

MINIMUM_SAMPLES == 3

MAX_MODELS == 1

\* Error(sample, model) on the point sets X1, X2 (columns are numbered from 0)
Adaptor_Error(E, X1, X2, sample, model) ==
  Square(ErrorT_Error(E, model, X1[sample + 1], X2[sample + 1]))

\* std::vector<double>::resize(n)
Resize(v, n) == [i \in 1..n |-> IF i <= Len(v) THEN v[i] ELSE [v |-> 0]]

\* ExtractColumns(X, samples)
ExtractColumns(X, cols) == [k \in 1..Len(cols) |-> X[cols[k] + 1]]

\* Eigen::umeyama(x1, x2, true), as a term over its arguments
Umeyama(x1, x2) == [umeyama |-> <<x1, x2>>]

\* RTSSolver::Solve(pts1, pts2, models)
RTSSolver_Solve(pts1, pts2, models) == Append(models, Umeyama(pts1, pts2))

\* log10(M_PI)
Log10Pi == "log10(M_PI)"

IntIdentity3 == <<<<1, 0, 0>>, <<0, 1, 0>>, <<0, 0, 1>>>>

NThreads == 2

NumPts == 3

Threads == 1..NThreads

PtA(i) == <<i - 1, (i * i) % 3, i % 2>>

ModelIdentity == <<<<1, 0, 0, 0>>, <<0, 1, 0, 0>>, <<0, 0, 1, 0>>, <<0, 0, 0, 1>>>>

\* scale 2, rotation of a quarter turn about z, translation (1, 0, -1)
ModelSRT == <<<<0, -2, 0, 1>>, <<2, 0, 0, 0>>, <<0, 0, 2, -1>>, <<0, 0, 0, 1>>>>

Models == {ModelIdentity, ModelSRT}

Transformed(M, p) ==
  [i \in 1..3 |-> M[i][1] * p[1] + M[i][2] * p[2] + M[i][3] * p[3] + M[i][4]]

PointsA == [i \in 1..NumPts |-> PtA(i)]

\* the images of PointsA under ModelSRT, the last one displaced (an outlier)
PointsB ==
  [i \in 1..NumPts |->
     IF i = NumPts THEN <<5, 0, 2>> ELSE Transformed(ModelSRT, PtA(i))]

SampleSets == {<<0, 1, 2>>, <<2, 0, 1>>}

Idle == [pc |-> "idle"]

InitAdaptor ==
  /\ ErrorT \in {"RTSSolver", "RTSSquaredResidualError"}
  /\ xA = PointsA
  /\ xB = PointsB
  /\ x1_ = xA
  /\ x2_ = xB
  /\ logalpha0_ = Log10Pi
  /\ thr = [th \in Threads |-> Idle]

Done(c, result) == [pc |-> "done", call |-> c, result |-> result]

\* double Error(size_t sample, const Model &model) const
Error(th) ==
  /\ thr[th].pc = "idle"
  /\ \E sample \in 0..(Len(x1_) - 1), model \in Models :
       thr' = [thr EXCEPT ![th] =
                 Done([op |-> "Error", sample |-> sample, model |-> model],
                      Adaptor_Error(ErrorT, x1_, x2_, sample, model))]
  /\ UNCHANGED <<ErrorT, xA, xB, x1_, x2_, logalpha0_>>
  /\ UNCHANGED <<rtsVars, fundVars, sampleVars>>

\* void Errors(const Model &model, std::vector<double> &vec_errors) const: the resize
Errors_Resize(th) ==
  /\ thr[th].pc = "idle"
  /\ \E model \in Models, stale \in {<<>>, <<[v |-> 9]>>} :
       thr' = [thr EXCEPT ![th] =
                 [pc |-> "Errors", call |-> [op |-> "Errors", model |-> model],
                  sample |-> 0, vec_errors |-> Resize(stale, Len(x1_))]]
  /\ UNCHANGED <<ErrorT, xA, xB, x1_, x2_, logalpha0_>>
  /\ UNCHANGED <<rtsVars, fundVars, sampleVars>>

\* one iteration of the loop of Errors
Errors_Loop(th) ==
  /\ thr[th].pc = "Errors"
  /\ thr[th].sample < Len(x1_)
  /\ thr' = [thr EXCEPT ![th].vec_errors[thr[th].sample + 1] =
                          Square(ErrorT_Error(ErrorT, thr[th].call.model,
                                              x1_[thr[th].sample + 1],
                                              x2_[thr[th].sample + 1])),
                        ![th].sample = @ + 1]
  /\ UNCHANGED <<ErrorT, xA, xB, x1_, x2_, logalpha0_>>
  /\ UNCHANGED <<rtsVars, fundVars, sampleVars>>

\* the loop of Errors ends
Errors_Return(th) ==
  /\ thr[th].pc = "Errors"
  /\ ~(thr[th].sample < Len(x1_))
  /\ thr' = [thr EXCEPT ![th] = Done(thr[th].call, thr[th].vec_errors)]
  /\ UNCHANGED <<ErrorT, xA, xB, x1_, x2_, logalpha0_>>
  /\ UNCHANGED <<rtsVars, fundVars, sampleVars>>

\* a slip: the extracted columns assigned to the member instead of the local
Fit_Extract1_IntoMember(th) ==
  /\ thr[th].pc = "idle"
  /\ \E smp \in SampleSets :
       /\ thr' = [thr EXCEPT ![th] =
                    [pc |-> "Fit1", call |-> [op |-> "Fit", samples |-> smp],
                     x1 |-> ExtractColumns(x1_, smp), models |-> <<>>]]
       /\ x1_' = ExtractColumns(x1_, smp)
  /\ UNCHANGED <<ErrorT, xA, xB, x2_, logalpha0_>>
  /\ UNCHANGED <<rtsVars, fundVars, sampleVars>>

\* void Fit(const std::vector<size_t> &samples, std::vector<Model> *models) const:
\* const Mat x1 = ExtractColumns(x1_, samples)
Fit_Extract1(th) ==
  /\ thr[th].pc = "idle"
  /\ \E smp \in SampleSets :
       thr' = [thr EXCEPT ![th] =
                 [pc |-> "Fit1", call |-> [op |-> "Fit", samples |-> smp],
                  x1 |-> ExtractColumns(x1_, smp), models |-> <<>>]]
  /\ UNCHANGED <<ErrorT, xA, xB, x1_, x2_, logalpha0_>>
  /\ UNCHANGED <<rtsVars, fundVars, sampleVars>>

\* const Mat x2 = ExtractColumns(x2_, samples); Solver::Solve(x1, x2, models)
Fit_Solve(th) ==
  /\ thr[th].pc = "Fit1"
  /\ LET x2 == ExtractColumns(x2_, thr[th].call.samples)
     IN  thr' = [thr EXCEPT ![th] =
                   Done(thr[th].call,
                        RTSSolver_Solve(thr[th].x1, x2, thr[th].models))]
  /\ UNCHANGED <<ErrorT, xA, xB, x1_, x2_, logalpha0_>>
  /\ UNCHANGED <<rtsVars, fundVars, sampleVars>>

\* size_t NumSamples() const
NumSamples(th) ==
  /\ thr[th].pc = "idle"
  /\ thr' = [thr EXCEPT ![th] = Done([op |-> "NumSamples"], Len(x1_))]
  /\ UNCHANGED <<ErrorT, xA, xB, x1_, x2_, logalpha0_>>
  /\ UNCHANGED <<rtsVars, fundVars, sampleVars>>

\* void Unnormalize(Model *model) const: does nothing, the model is as it was
Unnormalize(th) ==
  /\ thr[th].pc = "idle"
  /\ \E model \in Models :
       thr' = [thr EXCEPT ![th] = Done([op |-> "Unnormalize", model |-> model], model)]
  /\ UNCHANGED <<ErrorT, xA, xB, x1_, x2_, logalpha0_>>
  /\ UNCHANGED <<rtsVars, fundVars, sampleVars>>

\* double logalpha0() const
logalpha0(th) ==
  /\ thr[th].pc = "idle"
  /\ thr' = [thr EXCEPT ![th] = Done([op |-> "logalpha0"], logalpha0_)]
  /\ UNCHANGED <<ErrorT, xA, xB, x1_, x2_, logalpha0_>>
  /\ UNCHANGED <<rtsVars, fundVars, sampleVars>>

\* double multError() const
multError(th) ==
  /\ thr[th].pc = "idle"
  /\ thr' = [thr EXCEPT ![th] = Done([op |-> "multError"], [v |-> 1])]
  /\ UNCHANGED <<ErrorT, xA, xB, x1_, x2_, logalpha0_>>
  /\ UNCHANGED <<rtsVars, fundVars, sampleVars>>

\* Mat3 normalizer1() const, Mat3 normalizer2() const
normalizer12(th) ==
  /\ thr[th].pc = "idle"
  /\ \E which \in {"normalizer1", "normalizer2"} :
       thr' = [thr EXCEPT ![th] = Done([op |-> which], IntIdentity3)]
  /\ UNCHANGED <<ErrorT, xA, xB, x1_, x2_, logalpha0_>>
  /\ UNCHANGED <<rtsVars, fundVars, sampleVars>>

\* double unormalizeError(double val) const
unormalizeError(th) ==
  /\ thr[th].pc = "idle"
  /\ \E val \in {3, 4} :
       thr' = [thr EXCEPT ![th] = Done([op |-> "unormalizeError", val |-> val], SqrtOf(val))]
  /\ UNCHANGED <<ErrorT, xA, xB, x1_, x2_, logalpha0_>>
  /\ UNCHANGED <<rtsVars, fundVars, sampleVars>>

\* the caller takes the result; the thread is free for its next call
Return(th) ==
  /\ thr[th].pc = "done"
  /\ thr' = [thr EXCEPT ![th] = Idle]
  /\ UNCHANGED <<ErrorT, xA, xB, x1_, x2_, logalpha0_>>
  /\ UNCHANGED <<rtsVars, fundVars, sampleVars>>

InitK == IdleRTS /\ InitAdaptor /\ IdleFund /\ IdleSample

NextKernel ==
  \E th \in Threads :
    \/ Error(th)
    \/ Errors_Resize(th)
    \/ Errors_Loop(th)
    \/ Errors_Return(th)
    \/ Fit_Extract1(th)
    \/ Fit_Solve(th)
    \/ NumSamples(th)
    \/ Unnormalize(th)
    \/ logalpha0(th)
    \/ multError(th)
    \/ normalizer12(th)
    \/ unormalizeError(th)
    \/ Return(th)

SpecKernel == InitK /\ [][NextKernel]_vars

(***************************************************************************)
(* Claims about the kernel adaptor.                                        *)
(***************************************************************************)

\* |x2_i - (S*R*x1_i + t)|^2 for correspondence i (numbered from 0) of the
\* point sets the adaptor was constructed with
SquaredResidual(model, i) ==
  [v |-> squaredNorm(Residual(model, xA[i + 1], xB[i + 1]))]

FinishedCall(th, op) == thr[th].pc = "done" /\ thr[th].call.op = op

\* C6: whatever error metric the adaptor is instantiated with, Error(i, model)
\* returns the squared residual of correspondence i, and Errors(model, v)
\* leaves v with NumSamples() entries, v[i] that same squared residual.
\* (Fails on the code for RTSSquaredResidualError: the squared error is
\* squared again.)
C6_ErrorIsSquaredResidual ==
  \A th \in Threads :
    /\ FinishedCall(th, "Error") =>
         thr[th].result = SquaredResidual(thr[th].call.model, thr[th].call.sample)
    /\ FinishedCall(th, "Errors") =>
         /\ Len(thr[th].result) = Len(xA)
         /\ \A i \in 1..Len(xA) :
              thr[th].result[i] = SquaredResidual(thr[th].call.model, i - 1)

\* C6 for the instance with RTSSolver as error metric: the statement holds.
C6_HoldsForRTSSolverError == (ErrorT = "RTSSolver") => C6_ErrorIsSquaredResidual

\* what call c returns when it runs alone on an adaptor constructed from xA, xB
RunAlone(c) ==
  CASE c.op = "Error" -> Adaptor_Error(ErrorT, xA, xB, c.sample, c.model)
    [] c.op = "Errors" ->
         [i \in 1..Len(xA) |-> Adaptor_Error(ErrorT, xA, xB, i - 1, c.model)]
    [] c.op = "Fit" ->
         <<Umeyama(ExtractColumns(xA, c.samples), ExtractColumns(xB, c.samples))>>
    [] c.op = "NumSamples" -> Len(xA)
    [] c.op = "Unnormalize" -> c.model
    [] c.op = "logalpha0" -> Log10Pi
    [] c.op = "multError" -> [v |-> 1]
    [] c.op \in {"normalizer1", "normalizer2"} -> IntIdentity3
    [] c.op = "unormalizeError" -> SqrtOf(c.val)

\* C8: no operation of the adaptor changes x1_, x2_ or logalpha0_, and under
\* every interleaving of calls from several threads each call returns what it
\* returns when run alone on the same arguments.
C8_AdaptorImmutableCallsIndependent ==
  /\ x1_ = xA
  /\ x2_ = xB
  /\ logalpha0_ = Log10Pi
  /\ \A th \in Threads :
       thr[th].pc = "done" => thr[th].result = RunAlone(thr[th].call)

\* C8 witness: a thread completes Errors while another is in the middle of Fit
C8_Witness ==
  \E a \in Threads, b \in Threads :
    /\ a # b
    /\ FinishedCall(a, "Errors")
    /\ thr[b].pc = "Fit1"
    /\ thr[b].call.samples = <<2, 0, 1>>

-----------------------------------------------------------------------------
(* Fundamental-matrix solvers (multiview/fundamentalKernelSolver.cpp).      *)
(* Image points are integer pairs <<x, y>>; a point set is a sequence of    *)
(* them (one column of the 2xN matrix each).  A 9-vector f is the row-major *)
(* vectorisation of a 3x3 matrix.  Everything here is exact integer         *)
(* arithmetic.                                                              *)

\* One row of the epipolar coefficient matrix: x2^T F x1 = 0 written as a
\* linear equation in the nine row-major entries of F, scaled by a weight.
EncodeRow(p1, p2, w) ==
  << w * p2[1] * p1[1], w * p2[1] * p1[2], w * p2[1],
     w * p2[2] * p1[1], w * p2[2] * p1[2], w * p2[2],
     w * p1[1],         w * p1[2],         w >>

NoWeights == <<>>

\* EncodeEpipolarEquation(x1, x2, &A, weights): one row per correspondence.
EncodeEpipolarEquation(x1, x2, weights) ==
  [i \in 1..Len(x1) |->
     EncodeRow(x1[i], x2[i], IF weights = NoWeights THEN 1 ELSE weights[i])]

ZeroRow9 == <<0, 0, 0, 0, 0, 0, 0, 0, 0>>

\* The coefficient matrix a solver builds: in the minimal case a 9x9 matrix
\* set to zero whose first rows are then encoded, otherwise an Nx9 matrix.
CoefficientMatrix(x1, x2, weights, minimal) ==
  LET A == EncodeEpipolarEquation(x1, x2, weights)
  IN  IF Len(x1) = minimal
        THEN A \o [i \in 1..(9 - minimal) |-> ZeroRow9]
        ELSE A

Dot9(a, b) ==
  a[1]*b[1] + a[2]*b[2] + a[3]*b[3] + a[4]*b[4] + a[5]*b[5]
    + a[6]*b[6] + a[7]*b[7] + a[8]*b[8] + a[9]*b[9]

InNullspace(A, f) == \A i \in 1..Len(A) : Dot9(A[i], f) = 0

\* Directions a null-space extraction can return in this model (a singular
\* vector is determined only up to the choice of basis inside the null space).
K1 == <<0, 0, 0,   0, 0, -1,   0, 1, 0>>
K2 == <<0, 0, 1,   0, 0, 0,   -1, 0, 0>>
K3 == <<0, -1, 0,   1, 0, 0,   0, 0, 0>>
G2 == <<-1, 1, -3,   -2, 2, -1,   2, -1, 0>>
Conic == <<2, 0, 0,   0, 0, -1,   0, -1, 0>>
H1 == <<2, 0, 0,   0, 0, -3,   0, 1, 0>>
H2 == <<4, 0, 0,   0, 0, 1,   0, -5, 0>>
I9v == <<1, 0, 0,   0, 1, 0,   0, 0, 1>>
NullDirections == {K1, K2, K3, G2, Conic, H1, H2, I9v}

\* Nullspace2(&A, &f1, &f2): two orthogonal vectors of the null space of A.
Nullspace2(A) ==
  {p \in NullDirections \X NullDirections :
     /\ p[1] # p[2]
     /\ InNullspace(A, p[1])
     /\ InNullspace(A, p[2])
     /\ Dot9(p[1], p[2]) = 0}

\* Nullspace(&A, &f): one vector of the null space of A.
Nullspace(A) == {f \in NullDirections : InNullspace(A, f)}

\* The null space of A has dimension above 2: it holds three pairwise
\* orthogonal (hence independent) directions.
NullspaceAbove2(A) ==
  \E a \in NullDirections : \E b \in NullDirections : \E c \in NullDirections :
    /\ InNullspace(A, a) /\ InNullspace(A, b) /\ InNullspace(A, c)
    /\ Dot9(a, b) = 0 /\ Dot9(a, c) = 0 /\ Dot9(b, c) = 0

\* Map<RMat3>(f.data()): the 9-vector read row by row.
RMat3(f) == << <<f[1], f[2], f[3]>>, <<f[4], f[5], f[6]>>, <<f[7], f[8], f[9]>> >>

IntDet3(M) ==
    M[1][1] * (M[2][2] * M[3][3] - M[2][3] * M[3][2])
  - M[1][2] * (M[2][1] * M[3][3] - M[2][3] * M[3][1])
  + M[1][3] * (M[2][1] * M[3][2] - M[2][2] * M[3][1])

\* Coefficients P[0..3] of det(F1 + x F2), by ascending power of x.
DetPolynomial(F1, F2) ==
  LET a == F1[1][1]  b == F1[1][2]  c == F1[1][3]
      d == F1[2][1]  e == F1[2][2]  f == F1[2][3]
      g == F1[3][1]  h == F1[3][2]  i == F1[3][3]
      j == F2[1][1]  k == F2[1][2]  l == F2[1][3]
      m == F2[2][1]  n == F2[2][2]  o == F2[2][3]
      p == F2[3][1]  q == F2[3][2]  r == F2[3][3]
  IN  << a*e*i + b*f*g + c*d*h - a*f*h - b*d*i - c*e*g,
         a*e*r + a*i*n + b*f*p + b*g*o + c*d*q + c*h*m + d*h*l + e*i*j + f*g*k
           - a*f*q - a*h*o - b*d*r - b*i*m - c*e*p - c*g*n - d*i*k - e*g*l - f*h*j,
         a*n*r + b*o*p + c*m*q + d*l*q + e*j*r + f*k*p + g*k*o + h*l*m + i*j*n
           - a*o*q - b*m*r - c*n*p - d*k*r - e*l*p - f*j*q - g*l*n - h*j*o - i*k*m,
         j*n*r + k*o*p + l*m*q - j*o*q - k*m*r - l*n*p >>

\* Discriminant of P[3] x^3 + P[2] x^2 + P[1] x + P[0].
Discriminant(P) ==
  LET d == P[1]  c == P[2]  b == P[3]  a == P[4]
  IN  18*a*b*c*d - 4*b*b*b*d + b*b*c*c - 4*a*c*c*c - 27*a*a*d*d

\* SolveCubicPolynomial(P, roots): the number of real roots it can report.
\* A proper cubic has three distinct real roots, or one; with a repeated
\* root the count depends on how the finder counts multiplicity.  With a
\* vanishing leading coefficient there is no cubic and no root is reported.
SolveCubicPolynomial(P) ==
  IF P[4] = 0 THEN {0}
  ELSE IF Discriminant(P) > 0 THEN {3}
  ELSE IF Discriminant(P) < 0 THEN {1}
  ELSE {1, 2, 3}

\* F1 + roots[kk] * F2, kept symbolic: the kk-th real root of P.
Candidate(F1, F2, P, kk) == [F1 |-> F1, F2 |-> F2, P |-> P, root |-> kk]

\* SevenPointSolver::Solve once the null-space pair and the root count are
\* known: one candidate per real root is pushed onto F.
SevenPointSolver_Solve(f1, f2, num_roots, Fin) ==
  LET F1 == RMat3(f1)
      F2 == RMat3(f2)
      P  == DetPolynomial(F1, F2)
  IN  Fin \o [kk \in 1..num_roots |-> Candidate(F1, F2, P, kk)]

\* The rank-2 step: SVD, smallest singular value set to 0, reconstruction.
\* A singular matrix already has a zero smallest singular value and is
\* reproduced; for a regular one the result is kept symbolic.
EnforceRank2(Fm) ==
  IF IntDet3(Fm) = 0 THEN [mat |-> Fm] ELSE [rank2of |-> Fm]

EightPointSolver_Solve_AlwaysRank2(x1, f, FsIn) ==
  Append(FsIn, IF Len(x1) >= 8 THEN EnforceRank2(RMat3(f)) ELSE [mat |-> RMat3(f)])

\* EightPointSolver::Solve once the null-space vector is known.
EightPointSolver_Solve(x1, f, FsIn) ==
  Append(FsIn, IF Len(x1) > 8 THEN EnforceRank2(RMat3(f)) ELSE [mat |-> RMat3(f)])

(* Correspondence sets <<x1, y1, x2, y2>> the solvers are called with.  All *)
(* satisfy the shape assertions at the head of Solve (2 rows, equal column  *)
(* counts, at least the minimal number of columns).                         *)

\* Seven correspondences in general position: the null space is the plane
\* spanned by K1 and G2.
General7 ==
  << <<-2, 0, -4, 0>>, <<-2, -2, 0, -2>>, <<-2, 1, -3, 1>>, <<1, -2, 3, -2>>,
     <<-1, 1, 0, 1>>, <<2, -1, 2, -1>>, <<-1, -1, 0, -1>> >>

\* The same with an eighth correspondence that keeps the null space a plane.
General8 == Append(General7, <<0, 1, 0, 1>>)

\* An image matched against itself: seven points of the parabola y = x^2,
\* each paired with itself.  The null space has dimension 4.
SelfMatch7 ==
  << <<-3, 9, -3, 9>>, <<-2, 4, -2, 4>>, <<-1, 1, -1, 1>>, <<0, 0, 0, 0>>,
     <<1, 1, 1, 1>>, <<2, 4, 2, 4>>, <<3, 9, 3, 9>> >>

\* Nine correspondences whose only null direction is the identity matrix
\* (a regular matrix); the first eight determine it already.
Regular9 ==
  << <<-1, -2, -1, 1>>, <<1, 0, -1, -1>>, <<-2, -1, 0, 1>>, <<0, 1, 2, -1>>,
     <<-1, 1, 0, -1>>, <<1, -1, 0, 1>>, <<-1, 0, 1, 2>>, <<-1, 0, 1, 0>>,
     <<2, -1, -1, -1>> >>

\* Nine correspondences of a rectified pair: the only null direction is K1
\* (a rank-2 matrix); the first eight determine it already.
Rectified9 ==
  << <<2, 2, 3, 2>>, <<1, -1, 0, -1>>, <<-1, 2, 0, 2>>, <<-2, -2, -3, -2>>,
     <<2, -2, 2, -2>>, <<-2, 0, -1, 0>>, <<2, 1, 3, 1>>, <<1, 2, 2, 2>>,
     <<-1, 0, -3, 0>> >>

FirstView(D)  == [i \in 1..Len(D) |-> <<D[i][1], D[i][2]>>]
SecondView(D) == [i \in 1..Len(D) |-> <<D[i][3], D[i][4]>>]

SevenPointInputs == {General7, General8, SelfMatch7}
EightPointInputs ==
  {Regular9, SubSeq(Regular9, 1, 8), Rectified9, SubSeq(Rectified9, 1, 8)}

\* The optional weights of the eight-point solver: none, or one positive
\* weight per correspondence.
WeightChoices(N) == {NoWeights, [i \in 1..N |-> 1 + (i % 2)]}

\* The eight-point solver is called while Fs holds fewer than MaxOut
\* matrices, the seven-point solver while F holds fewer than MaxCandidates.
MaxOut == 2
MaxCandidates == 1

InitFund ==
  /\ F = <<>>
  /\ Fs = <<>>
  /\ fcall = [op |-> "none"]

Call_SevenPointSolver ==
  /\ Len(F) < MaxCandidates
  /\ \E D \in SevenPointInputs :
       LET x1 == FirstView(D)
           x2 == SecondView(D)
           A  == CoefficientMatrix(x1, x2, NoWeights, 7)
       IN  \E ns \in Nullspace2(A) :
             \E num_roots \in
                  SolveCubicPolynomial(DetPolynomial(RMat3(ns[1]), RMat3(ns[2]))) :
               /\ F' = SevenPointSolver_Solve(ns[1], ns[2], num_roots, F)
               /\ fcall' = [op |-> "SevenPointSolver", x1 |-> x1, x2 |-> x2,
                            A |-> A, f1 |-> ns[1], f2 |-> ns[2],
                            num_roots |-> num_roots]
  /\ UNCHANGED <<Fs, rtsVars, kernelVars, sampleVars>>

Call_EightPointSolver ==
  /\ Len(Fs) < MaxOut
  /\ \E D \in EightPointInputs :
       LET x1 == FirstView(D)
           x2 == SecondView(D)
       IN  \E weights \in WeightChoices(Len(x1)) :
             LET A == CoefficientMatrix(x1, x2, weights, 8)
             IN  \E f \in Nullspace(A) :
                   /\ Fs' = EightPointSolver_Solve(x1, f, Fs)
                   /\ fcall' = [op |-> "EightPointSolver", x1 |-> x1, x2 |-> x2,
                                A |-> A, f |-> f]
  /\ UNCHANGED <<F, rtsVars, kernelVars, sampleVars>>

InitFu == IdleRTS /\ IdleKernel /\ InitFund /\ IdleSample

NextFund ==
  \/ Call_SevenPointSolver
  \/ Call_EightPointSolver

SpecFund == InitFu /\ [][NextFund]_vars

-----------------------------------------------------------------------------
(* Claims about the fundamental-matrix solvers.                             *)

\* C7 (as stated): when the 7 input correspondences are degenerate, so that
\* the null space of the coefficient matrix has dimension above 2,
\* SevenPointSolver::Solve adds no candidate matrix to its output F.
C7_SevenPointDegenerateStep ==
  (/\ fcall'.op = "SevenPointSolver"
   /\ Len(fcall'.x1) = 7
   /\ NullspaceAbove2(fcall'.A))
    => F' = F

C7_SevenPointRejectsDegenerate == [][C7_SevenPointDegenerateStep]_vars

\* C9: EightPointSolver::Solve appends exactly one matrix to Fs and keeps the
\* entries Fs held; with N = 8 columns the appended matrix is the null-space
\* vector reshaped row-major, unmodified, and with N > 8 it is that matrix
\* after the rank-2 step.
C9_EightPointStep ==
  fcall'.op = "EightPointSolver" =>
    LET N  == Len(fcall'.x1)
        Fm == RMat3(fcall'.f)
    IN  /\ N >= 8
        /\ InNullspace(fcall'.A, fcall'.f)
        /\ Len(Fs') = Len(Fs) + 1
        /\ SubSeq(Fs', 1, Len(Fs)) = Fs
        /\ N = 8 => Fs'[Len(Fs')] = [mat |-> Fm]
        /\ N > 8 => Fs'[Len(Fs')] = EnforceRank2(Fm)

C9_EightPointAppendsOne == [][C9_EightPointStep]_vars

\* An over-determined call on the regular data has appended a rank-2-forced
\* matrix behind the unmodified matrix of an earlier minimal call.
C9_Witness ==
  /\ fcall.op = "EightPointSolver"
  /\ Len(fcall.x1) = 9
  /\ Len(Fs) = 2
  /\ Fs[1] = [mat |-> RMat3(I9v)]
  /\ Fs[2] = [rank2of |-> RMat3(I9v)]

-----------------------------------------------------------------------------
(* Uniform sampling without replacement (robustEstimation/randSampling.hpp, *)
(* exercised by randSampling_test.cpp).  A call draws k distinct integers   *)
(* of the range [lo, hi).  The UniformSample forms draw a candidate of the  *)
(* range and retry when it was already chosen; randSample runs a partial    *)
(* Fisher-Yates shuffle over the listed range, swapping each chosen value   *)
(* out of the part still to draw from.  The random source is a              *)
(* nondeterministic choice.                                                 *)

\* Ranges are followed up to this upper bound.
MaxN == 4

VectorForm == "UniformSample(numSamples, upperBound, vector)"
SetForm    == "UniformSample(numSamples, upperBound, set)"
RangeForm  == "UniformSample(lowerBound, upperBound, numSamples, vector)"
RandForm   == "randSample(lowerBound, upperBound, numSamples)"
Routines   == {VectorForm, SetForm, RangeForm, RandForm}

\* The calls that satisfy the precondition k <= hi - lo; the forms without
\* a lower bound sample [0, hi).
SampleCalls ==
  {c \in [routine : Routines, lo : 0..MaxN, hi : 0..MaxN, k : 0..MaxN] :
     /\ c.lo <= c.hi
     /\ c.k <= c.hi - c.lo
     /\ c.routine \in {VectorForm, SetForm} => c.lo = 0}

DrawRange_FromZero(lo, hi) == 0..(hi - 1)

\* The values a draw of the random source can give.
DrawRange(lo, hi) == lo..(hi - 1)

Elements(s) == {s[i] : i \in 1..Len(s)}

\* A drawn candidate is kept when it was not chosen before.
Accepts_Always(chosen, v) == TRUE

Accepts(chosen, v) == v \notin Elements(chosen)

\* std::set keeps its elements in ascending order.
InsertSorted(s, v) ==
  LET below == SelectSeq(s, LAMBDA x : x < v)
      above == SelectSeq(s, LAMBDA x : x > v)
  IN  below \o <<v>> \o above

Keep(routine, chosen, v) ==
  IF routine = SetForm THEN InsertSorted(chosen, v) ELSE Append(chosen, v)

\* std::iota over the range.
Iota(lo, hi) == [i \in 1..(hi - lo) |-> lo + i - 1]

Swap(s, i, j) == [s EXCEPT ![i] = s[j], ![j] = s[i]]

InitSample ==
  /\ sCall \in SampleCalls
  /\ samples \in {<<>>, <<0, 0>>}
  /\ sPool = <<>>
  /\ sPc = "start"

\* The output is emptied and, for randSample, the range is listed.
Sample_Begin ==
  /\ sPc = "start"
  /\ samples' = <<>>
  /\ sPool' = IF sCall.routine = RandForm THEN Iota(sCall.lo, sCall.hi) ELSE <<>>
  /\ sPc' = IF sCall.routine = RandForm THEN "shuffle" ELSE "draw"
  /\ UNCHANGED <<sCall, rtsVars, kernelVars, fundVars>>

\* One trial of the retry loop: a candidate is drawn and kept unless it was
\* chosen before.
Sample_Draw ==
  /\ sPc = "draw"
  /\ Len(samples) < sCall.k
  /\ \E v \in DrawRange(sCall.lo, sCall.hi) :
       samples' = IF Accepts(samples, v)
                    THEN Keep(sCall.routine, samples, v)
                    ELSE samples
  /\ UNCHANGED <<sCall, sPool, sPc, rtsVars, kernelVars, fundVars>>

\* One step of the partial shuffle: a value of the part still to draw from
\* is swapped to its front and chosen.
Sample_Swap ==
  /\ sPc = "shuffle"
  /\ Len(samples) < sCall.k
  /\ LET i == Len(samples) + 1
     IN  \E j \in i..Len(sPool) :
           /\ sPool' = Swap(sPool, i, j)
           /\ samples' = Append(samples, sPool[j])
  /\ UNCHANGED <<sCall, sPc, rtsVars, kernelVars, fundVars>>

Sample_Return ==
  /\ sPc \in {"draw", "shuffle"}
  /\ Len(samples) = sCall.k
  /\ sPc' = "done"
  /\ UNCHANGED <<sCall, samples, sPool, rtsVars, kernelVars, fundVars>>

InitS == IdleRTS /\ IdleKernel /\ IdleFund /\ InitSample

NextSample ==
  \/ Sample_Begin
  \/ Sample_Draw
  \/ Sample_Swap
  \/ Sample_Return

\* A draw that is kept has positive probability whenever fewer than k values
\* are chosen, so the retry loop leaves every state it can leave.
SpecSample == InitS /\ [][NextSample]_vars /\ WF_vars(NextSample)

-----------------------------------------------------------------------------
(* Claims about sampling.                                                   *)

NoRepetition(s) == \A i \in 1..Len(s) : \A j \in 1..Len(s) : i # j => s[i] # s[j]

\* C1: for every upper bound n >= 1 and count k with 1 <= k <= n,
\* UniformSample(k, n, samples), in its vector and its set form, terminates
\* with exactly k pairwise-distinct values v, each with 0 <= v < n.
C1_UniformSampleTerminatesDistinct ==
  (/\ sCall.routine \in {VectorForm, SetForm}
   /\ sCall.hi >= 1
   /\ sCall.k >= 1)
    => <>(/\ sPc = "done"
          /\ Len(samples) = sCall.k
          /\ NoRepetition(samples)
          /\ \A i \in 1..Len(samples) : 0 <= samples[i] /\ samples[i] < sCall.hi)

\* The set form has returned two of four values after the caller's old
\* content was dropped.
C1_Witness ==
  /\ sPc = "done"
  /\ sCall = [routine |-> SetForm, lo |-> 0, hi |-> 4, k |-> 2]
  /\ samples = <<1, 3>>

\* C2: for the offset forms UniformSample(lo, hi, k, samples) and
\* randSample(lo, hi, k) with lo <= hi and k = hi - lo, the result holds
\* every integer of [lo, hi) exactly once.
C2_FullRangeIsPermutation ==
  (/\ sPc = "done"
   /\ sCall.routine \in {RangeForm, RandForm}
   /\ sCall.k = sCall.hi - sCall.lo)
    => /\ Len(samples) = sCall.k
       /\ NoRepetition(samples)
       /\ Elements(samples) = sCall.lo..(sCall.hi - 1)

\* The offset form has returned the whole range [1, 4) in a shuffled order.
C2_Witness ==
  /\ sPc = "done"
  /\ sCall = [routine |-> RangeForm, lo |-> 1, hi |-> 4, k |-> 3]
  /\ samples = <<3, 1, 2>>
=============================================================================
